---- MODULE Spec2Model ----
(***************************************************************************)
(* Model of examples/complex/syncing_changes.py: the TableUpdater that     *)
(* diffs a source and a target table by OID and EDITED@ timestamp and      *)
(* applies the difference to the target (updates, inserts, deletes).       *)
(*                                                                         *)
(* The arcpy storage layer is modelled by what the program relies on: a    *)
(* table is a mapping OID -> row, cursors iterate in ascending OID order,  *)
(* a where clause selects rows by OID, insertRow returns the OID of the    *)
(* row it stored, the EDITED@ stamp of a written row is the one carried in *)
(* the row or the storage layer's time of the edit, and an Editor scope    *)
(* left by an exception discards the writes of that scope.  A row is its   *)
(* OID and its EDITED@ stamp; the other field values are carried along     *)
(* unread and are left out.  The program is single-threaded and the model  *)
(* follows it alone: the datasets change only through the writes of        *)
(* apply_changes.                                                          *)
(***************************************************************************)
EXTENDS Integers, Sequences, FiniteSets, TLC

VARIABLES
    exists,        \* table path -> does the dataset exist (arcpy.Exists)
    db,            \* table path -> (OID -> EDITED@) the stored rows
    pc,            \* position of the caller / of apply_changes
    _table_diff,   \* TableUpdater._table_diff: None or <<Changes>>
    rows,          \* apply_changes local: updates / inserts / deletes of the phase
    where_clause,  \* apply_changes local: where_clause of the phase
    editing,       \* is the edit session of target_editor open
    changes,       \* apply_changes local and return value
    log,           \* history: storage calls made on behalf of the current apply_changes
    scans,         \* history: _get_table_diff runs since construction / last return
    snapshot,      \* history: the source_state and target_state _table_diff was computed from
    lastOp         \* history: the operation that took the last step

vars == << exists, db, pc, _table_diff, rows, where_clause, editing, changes,
           log, scans, snapshot, lastOp >>

-----------------------------------------------------------------------------
(* Bounds *)

MaxId == 3
MaxTime == 1

Ids == 1 .. MaxId
Times == 0 .. MaxTime

-----------------------------------------------------------------------------
(* Values *)

source_table == "source_table"
target_table == "target_table"
Tables == {source_table, target_table}

None == << >>
Some(x) == << x >>

Datasets == UNION { [S -> Times] : S \in SUBSET Ids }

EmptyDataset == [oid \in {} |-> 0]

RECURSIVE SetToSeq(_)
\* list(...) of a collection of OIDs, in ascending order
SetToSeq(S) ==
    IF S = {} THEN << >>
    ELSE LET m == CHOOSE x \in S : \A y \in S : x <= y
         IN << m >> \o SetToSeq(S \ {m})

Range(s) == { s[i] : i \in 1 .. Len(s) }

Changes(u, i, d) == [updates |-> u, inserts |-> i, deletes |-> d]

NoChanges == [updates |-> << >>, inserts |-> << >>, deletes |-> << >>]

NoSnapshot == [source |-> EmptyDataset, target |-> EmptyDataset]

-----------------------------------------------------------------------------
(* The storage layer as the program uses it *)

\* arcpy.Exists(table)
Exists(table) == exists[table]

\* Describe(table).OIDFieldName: both datasets are geodatabase tables, whose
\* OID field is named OBJECTID
OIDFieldName(table) == "OBJECTID"

source_oid_field == OIDFieldName(source_table)
target_oid_field == OIDFieldName(target_table)

\* f"{field} = {oid}" and f"{field} = ({oid})": an equality on one OID
EqualsClause(field, oids) == [field |-> field, op |-> "=", args |-> << oids[1] >>]

\* Variant: the membership list misses the last OID
InClause_DropsLast(field, oids) ==
    [field |-> field, op |-> "IN", args |-> SubSeq(oids, 1, Len(oids) - 1)]

\* f"{field} IN ({','.join(map(str, oids))})": membership in the listed OIDs
InClause(field, oids) == [field |-> field, op |-> "IN", args |-> oids]

NoClause == [field |-> "", op |-> "", args |-> << >>]

\* A where clause on a field the table does not have is an invalid query
ValidWhere(table, w) == w = NoClause \/ w.field = OIDFieldName(table)

\* Does the row with this OID of a table satisfy the where clause
Matches(table, w, oid) ==
    \/ w = NoClause
    \/ /\ w.field = OIDFieldName(table)
       /\ \/ w.op = "=" /\ oid = w.args[1]
          \/ w.op = "IN" /\ \E i \in 1 .. Len(w.args) : w.args[i] = oid

\* The OIDs a cursor on the table with this where clause visits, in order
CursorOids(table, w) ==
    SetToSeq({ oid \in DOMAIN db[table] : Matches(table, w, oid) })

\* The OIDs of a list of rows (row[0] of each)
Oids(rs) == [i \in 1 .. Len(rs) |-> rs[i].oid]

\* The row of a list of rows that has this OID (updates[oid])
RowOf(rs, oid) == rs[CHOOSE i \in 1 .. Len(rs) : rs[i].oid = oid]

\* [row for row in SearchCursor(table, fields, where_clause=w)]
SearchCursor(table, w) ==
    LET oids == CursorOids(table, w)
    IN [i \in 1 .. Len(oids) |->
            [oid |-> oids[i], edited |-> db[table][oids[i]]]]

-----------------------------------------------------------------------------
(* TableUpdater *)

\* __init__: the guard in front of the raise
InvalidTablePaths == ~ Exists(source_table) /\ Exists(target_table)

\* __init__: Describe(target_table) / Describe(source_table) of a dataset
\* that does not exist raises
DescribeRaises == ~ Exists(target_table) \/ ~ Exists(source_table)

\* _gather_rows: {oid: updated_at for oid, updated_at in SearchCursor(table, ...)}
_gather_rows(table) ==
    LET cur == SearchCursor(table, NoClause)
    IN [oid \in Range(Oids(cur)) |-> RowOf(cur, oid).edited]

source_state == _gather_rows(source_table)
target_state == _gather_rows(target_table)

\* Variant: a comparison that is not strict (old_rows[oid] <= new_rows[oid])
IsNewer_NotStrict(old_edited, new_edited) == old_edited <= new_edited

\* old_rows[oid] < new_rows[oid]
IsNewer(old_edited, new_edited) == old_edited < new_edited

\* Variant: inserts lists every source OID instead of the difference
_get_table_diff_AllSourceAsInserts ==
    LET old_rows == target_state
        new_rows == source_state
    IN Changes(
        SelectSeq(SetToSeq(DOMAIN new_rows),
                  LAMBDA oid : oid \in DOMAIN old_rows
                               /\ IsNewer(old_rows[oid], new_rows[oid])),
        SetToSeq(DOMAIN new_rows),
        SetToSeq(DOMAIN old_rows \ DOMAIN new_rows))


_get_table_diff ==
    LET old_rows == target_state
        new_rows == source_state
    IN Changes(
        SelectSeq(SetToSeq(DOMAIN new_rows),
                  LAMBDA oid : oid \in DOMAIN old_rows
                               /\ IsNewer(old_rows[oid], new_rows[oid])),
        SetToSeq(DOMAIN new_rows \ DOMAIN old_rows),
        SetToSeq(DOMAIN old_rows \ DOMAIN new_rows))

\* Variant: a ChangeSet of three empty lists counts as falsy too
NotComputed_EmptyIsFalsy(memo) == memo = None \/ memo = Some(NoChanges)

\* "not self._table_diff": None is falsy, a Changes instance is truthy
NotComputed(memo) == memo = None

\* The table_diff property: the memo after the access (its [1] is the value returned)
table_diff == IF NotComputed(_table_diff) THEN Some(_get_table_diff) ELSE _table_diff

\* Did this access of table_diff run _get_table_diff
Scanned == NotComputed(_table_diff)

\* The states the diff held after this access of table_diff was computed from
Snapshot ==
    IF Scanned THEN [source |-> source_state, target |-> target_state] ELSE snapshot

\* The where clause of _inserts / _updates and of the update and delete phases
SingleId(oids) == Len(oids) = 1

WhereClause(field, oids) ==
    IF SingleId(oids) THEN EqualsClause(field, oids) ELSE InClause(field, oids)

\* _updates(): the source rows of table_diff.updates (an empty result for no updates)
_updates(diff) ==
    IF diff.updates # << >>
    THEN SearchCursor(source_table, WhereClause(source_oid_field, diff.updates))
    ELSE << >>

\* _inserts(): the source rows of table_diff.inserts
_inserts(diff) ==
    IF diff.inserts # << >>
    THEN SearchCursor(source_table, WhereClause(source_oid_field, diff.inserts))
    ELSE << >>

\* Variant: returns the updates of the diff
_deletes_ReturnsUpdates(diff) == diff.updates

\* _deletes(): table_diff.deletes or None
_deletes(diff) == diff.deletes

-----------------------------------------------------------------------------
(* apply_changes: what each phase writes *)

\* Variant: the insert block stands in front of the update block
PhaseOrder_InsertsFirst == << "inserts", "updates", "deletes" >>

\* The order of the three "if ( x := self._x() ):" blocks
PhaseOrder == << "updates", "inserts", "deletes" >>

\* Where apply_changes goes on after the block of a phase
After(phase) ==
    LET k == CHOOSE i \in 1 .. Len(PhaseOrder) : PhaseOrder[i] = phase
    IN IF k < Len(PhaseOrder) THEN PhaseOrder[k + 1] ELSE "return"

\* if ( x := ... ): an empty list or dict, like None, is falsy
Truthy(rs) == rs # << >>

\* The position inside the block of a phase, or after it when there is nothing to do
Enter(phase, rs) ==
    IF Truthy(rs)
    THEN CASE phase = "updates" -> "updates_enter"
           [] phase = "inserts" -> "inserts_enter"
           [] phase = "deletes" -> "deletes_enter"
    ELSE After(phase)

\* Variant: the cursor of the update phase is opened on the source table
UpdateTable_Source == source_table

\* with self.target_editor: entering the scope opens the edit session
EditorEnter == TRUE

\* Variant: a scope left by an exception leaves the edit session open
EditorExit_LeaksOnError(raised) == raised

\* with self.target_editor: leaving the scope, normally or by an exception,
\* closes the edit session (the value is whether it is still open)
EditorExit(raised) == FALSE

\* The table the UpdateCursor of the update phase is opened on
UpdateTable == target_table

\* The table the InsertCursor of the insert phase is opened on
InsertTable == target_table

\* The table the UpdateCursor of the delete phase is opened on
DeleteTable == target_table

\* The EDITED@ values the rows written in one edit scope can end with: the
\* value carried in each row, or the storage layer's time of the edit
Stamps(rs) ==
    { [oid \in Range(Oids(rs)) |-> RowOf(rs, oid).edited] }
        \cup { [oid \in Range(Oids(rs)) |-> t] : t \in Times }

\* for oid, *_ in cur: cur.updateRow(updates[oid]) -- the table afterwards;
\* stamp[oid] is the EDITED@ value the written row ends with
UpdatedRows(table, w, rs, stamp) ==
    LET hit == Range(CursorOids(table, w))
    IN [oid \in DOMAIN db[table] |->
            IF oid \in hit
            THEN stamp[RowOf(rs, oid).oid]
            ELSE db[table][oid]]

\* [cur.updateRow(updates[oid]) or int(oid) for oid, *_ in cur]
UpdatedOids(table, w) == CursorOids(table, w)

\* for row in inserts: cur.insertRow(row) -- the table afterwards
InsertedRows(table, rs, stamp) ==
    [oid \in DOMAIN db[table] \cup Range(Oids(rs)) |->
        IF oid \in Range(Oids(rs))
        THEN stamp[RowOf(rs, oid).oid]
        ELSE db[table][oid]]

\* [cur.insertRow(row) for row in inserts]
InsertedOids(rs) == Oids(rs)

\* for oid, *_ in cur: cur.deleteRow() -- the table afterwards
RemainingRows(table, w) ==
    LET hit == Range(CursorOids(table, w))
    IN [oid \in DOMAIN db[table] \ hit |-> db[table][oid]]

\* Variant: every entry is the first OID visited (the "oid" of the enclosing scope)
DeletedOids_FirstOnly(table, w) ==
    [i \in 1 .. Len(CursorOids(table, w)) |-> CursorOids(table, w)[1]]

\* [cur.deleteRow() or oid for oid, *_ in cur]
DeletedOids(table, w) == CursorOids(table, w)

\* The storage calls of a phase, as they are recorded in the history
Calls(name, oids) == [i \in 1 .. Len(oids) |-> << name, oids[i] >>]

-----------------------------------------------------------------------------
(* Initial states: any pair of datasets, each existing or not *)

Init ==
    /\ exists \in [Tables -> BOOLEAN]
    /\ \E s \in Datasets, t \in Datasets :
          db = [x \in Tables |->
                  IF ~ exists[x] THEN EmptyDataset
                  ELSE IF x = source_table THEN s ELSE t]
    /\ pc = "new"
    /\ _table_diff = None
    /\ rows = << >>
    /\ where_clause = NoClause
    /\ editing = FALSE
    /\ changes = NoChanges
    /\ log = << >>
    /\ scans = 0
    /\ snapshot = NoSnapshot
    /\ lastOp = "none"

-----------------------------------------------------------------------------
(* Actions *)

\* TableUpdater(source_table, target_table)
Construct ==
    /\ pc = "new"
    /\ pc' = IF InvalidTablePaths THEN "ValueError"
             ELSE IF DescribeRaises THEN "OSError"
             ELSE "idle"
    /\ _table_diff' = None
    /\ lastOp' = "Construct"
    /\ UNCHANGED << exists, db, rows, where_clause, editing, changes, log, scans, snapshot >>

\* A caller reads the table_diff property
ReadTableDiff ==
    /\ pc = "idle"
    /\ _table_diff' = table_diff
    /\ scans' = IF Scanned THEN scans + 1 ELSE scans
    /\ snapshot' = Snapshot
    /\ lastOp' = "ReadTableDiff"
    /\ UNCHANGED << exists, db, pc, rows, where_clause, editing, changes, log >>

\* apply_changes(): changes = {'updates': [], 'inserts': [], 'deletes': []}
ApplyStart ==
    /\ pc = "idle"
    /\ pc' = PhaseOrder[1]
    /\ changes' = NoChanges
    /\ log' = << >>
    /\ lastOp' = "ApplyStart"
    /\ UNCHANGED << exists, db, _table_diff, rows, where_clause, editing, scans, snapshot >>

\* if ( updates := self._updates() ):
UpdatesRead ==
    /\ pc = "updates"
    /\ _table_diff' = table_diff
    /\ scans' = IF Scanned THEN scans + 1 ELSE scans
    /\ snapshot' = Snapshot
    /\ rows' = _updates(table_diff[1])
    /\ pc' = Enter("updates", rows')
    /\ lastOp' = "UpdatesRead"
    /\ UNCHANGED << exists, db, where_clause, editing, changes, log >>

\* where_clause = ...; with self.target_editor, UpdateCursor(...) as cur:
UpdatesEnter ==
    /\ pc = "updates_enter"
    /\ where_clause' = WhereClause(target_oid_field, Oids(rows))
    /\ editing' = EditorEnter
    /\ log' = Append(log, << "startEditing", 0 >>)
    /\ pc' = "updates_write"
    /\ lastOp' = "UpdatesEnter"
    /\ UNCHANGED << exists, db, _table_diff, rows, changes, scans, snapshot >>

\* changes['updates'] = [cur.updateRow(updates[oid]) or int(oid) for oid, *_ in cur]
UpdatesWrite ==
    /\ pc = "updates_write"
    /\ ValidWhere(UpdateTable, where_clause)
    /\ \E stamp \in Stamps(rows) :
          db' = [db EXCEPT ![UpdateTable] =
                    UpdatedRows(UpdateTable, where_clause, rows, stamp)]
    /\ changes' = [changes EXCEPT !.updates = UpdatedOids(UpdateTable, where_clause)]
    /\ log' = log \o Calls("updateRow", CursorOids(UpdateTable, where_clause))
                  \o << << "stopEditing", 0 >> >>
    /\ editing' = EditorExit(FALSE)
    /\ pc' = After("updates")
    /\ lastOp' = "UpdatesWrite"
    /\ UNCHANGED << exists, _table_diff, rows, where_clause, scans, snapshot >>

\* if ( inserts := self._inserts() ):
InsertsRead ==
    /\ pc = "inserts"
    /\ _table_diff' = table_diff
    /\ scans' = IF Scanned THEN scans + 1 ELSE scans
    /\ snapshot' = Snapshot
    /\ rows' = _inserts(table_diff[1])
    /\ pc' = Enter("inserts", rows')
    /\ lastOp' = "InsertsRead"
    /\ UNCHANGED << exists, db, where_clause, editing, changes, log >>

\* with self.target_editor, InsertCursor(self.target_table, self.fields) as cur:
InsertsEnter ==
    /\ pc = "inserts_enter"
    /\ editing' = EditorEnter
    /\ log' = Append(log, << "startEditing", 0 >>)
    /\ pc' = "inserts_write"
    /\ lastOp' = "InsertsEnter"
    /\ UNCHANGED << exists, db, _table_diff, rows, where_clause, changes, scans, snapshot >>

\* changes['inserts'] = [cur.insertRow(row) for row in inserts]
\* (a row whose OID the table already holds cannot be stored: see Raise)
InsertsWrite ==
    /\ pc = "inserts_write"
    /\ Range(Oids(rows)) \cap DOMAIN db[InsertTable] = {}
    /\ \E stamp \in Stamps(rows) :
          db' = [db EXCEPT ![InsertTable] = InsertedRows(InsertTable, rows, stamp)]
    /\ changes' = [changes EXCEPT !.inserts = InsertedOids(rows)]
    /\ log' = log \o Calls("insertRow", Oids(rows)) \o << << "stopEditing", 0 >> >>
    /\ editing' = EditorExit(FALSE)
    /\ pc' = After("inserts")
    /\ lastOp' = "InsertsWrite"
    /\ UNCHANGED << exists, _table_diff, rows, where_clause, scans, snapshot >>

\* if ( deletes := self._deletes() ):
DeletesRead ==
    /\ pc = "deletes"
    /\ _table_diff' = table_diff
    /\ scans' = IF Scanned THEN scans + 1 ELSE scans
    /\ snapshot' = Snapshot
    /\ rows' = [i \in 1 .. Len(_deletes(table_diff[1])) |->
                   [oid |-> _deletes(table_diff[1])[i], edited |-> 0]]
    /\ pc' = Enter("deletes", rows')
    /\ lastOp' = "DeletesRead"
    /\ UNCHANGED << exists, db, where_clause, editing, changes, log >>

\* where_clause = ...; with self.target_editor, UpdateCursor(...) as cur:
DeletesEnter ==
    /\ pc = "deletes_enter"
    /\ where_clause' = WhereClause(target_oid_field, Oids(rows))
    /\ editing' = EditorEnter
    /\ log' = Append(log, << "startEditing", 0 >>)
    /\ pc' = "deletes_write"
    /\ lastOp' = "DeletesEnter"
    /\ UNCHANGED << exists, db, _table_diff, rows, changes, scans, snapshot >>

\* changes['deletes'] = [cur.deleteRow() or oid for oid, *_ in cur]
DeletesWrite ==
    /\ pc = "deletes_write"
    /\ ValidWhere(DeleteTable, where_clause)
    /\ db' = [db EXCEPT ![DeleteTable] = RemainingRows(DeleteTable, where_clause)]
    /\ changes' = [changes EXCEPT !.deletes = DeletedOids(DeleteTable, where_clause)]
    /\ log' = log \o Calls("deleteRow", CursorOids(DeleteTable, where_clause))
                  \o << << "stopEditing", 0 >> >>
    /\ editing' = EditorExit(FALSE)
    /\ pc' = After("deletes")
    /\ lastOp' = "DeletesWrite"
    /\ UNCHANGED << exists, _table_diff, rows, where_clause, scans, snapshot >>

\* self._table_diff = None; return changes (the other locals are gone)
ApplyReturn ==
    /\ pc = "return"
    /\ _table_diff' = None
    /\ scans' = 0
    /\ snapshot' = NoSnapshot
    /\ rows' = << >>
    /\ where_clause' = NoClause
    /\ pc' = "idle"
    /\ lastOp' = "ApplyReturn"
    /\ UNCHANGED << exists, db, editing, changes, log >>

\* A write of a phase raises: the Editor scope is left by the exception, which
\* discards the writes of the phase, and the exception leaves apply_changes
\* (its locals are gone and nothing is returned)
Raise ==
    /\ pc \in {"updates_write", "inserts_write", "deletes_write"}
    /\ editing' = EditorExit(TRUE)
    /\ log' = Append(log, << "abortOperation", 0 >>)
    /\ rows' = << >>
    /\ where_clause' = NoClause
    /\ changes' = NoChanges
    /\ pc' = "idle"
    /\ lastOp' = "Raise"
    /\ UNCHANGED << exists, db, _table_diff, scans, snapshot >>

Next ==
    \/ Construct
    \/ ReadTableDiff
    \/ ApplyStart
    \/ UpdatesRead
    \/ UpdatesEnter
    \/ UpdatesWrite
    \/ InsertsRead
    \/ InsertsEnter
    \/ InsertsWrite
    \/ DeletesRead
    \/ DeletesEnter
    \/ DeletesWrite
    \/ ApplyReturn
    \/ Raise

Spec == Init /\ [][Next]_vars

-----------------------------------------------------------------------------
(* Properties *)

\* A list that names no id twice
NoDuplicates(l) == Cardinality(Range(l)) = Len(l)

\* A ChangeSet is memoized
Held == ~ NotComputed(_table_diff)

\* C1: the ChangeSet held is, for the snapshots it was computed from, updates =
\* the ids in both whose source timestamp is strictly greater, inserts = source
\* ids minus target ids, deletes = target ids minus source ids (each id listed
\* once); an id with an equal or older source timestamp is not an update.
C1_DiffIsSetAlgebra ==
    Held =>
        LET d == _table_diff[1]
            src == snapshot.source
            tgt == snapshot.target
        IN /\ Range(d.updates) =
                { id \in DOMAIN src \cap DOMAIN tgt : src[id] > tgt[id] }
           /\ Range(d.inserts) = DOMAIN src \ DOMAIN tgt
           /\ Range(d.deletes) = DOMAIN tgt \ DOMAIN src
           /\ NoDuplicates(d.updates) /\ NoDuplicates(d.inserts) /\ NoDuplicates(d.deletes)
           /\ \A id \in DOMAIN src \cap DOMAIN tgt :
                 src[id] <= tgt[id] => id \notin Range(d.updates)
           /\ src = tgt => d = NoChanges

\* A diff was computed where one id has equal timestamps, one an older source
\* timestamp and one a newer source timestamp
C1_Witness ==
    /\ Held
    /\ \E a, b, c \in DOMAIN snapshot.source \cap DOMAIN snapshot.target :
          /\ snapshot.source[a] = snapshot.target[a]
          /\ snapshot.source[b] < snapshot.target[b]
          /\ snapshot.source[c] > snapshot.target[c]
          /\ _table_diff[1].updates = << c >>

\* C2: the three id lists of a held ChangeSet are pairwise disjoint, and inserts,
\* deletes and the ids present in both snapshots cover exactly the ids of the
\* two snapshots it was computed from.
C2_DisjointAndCovering ==
    Held =>
        LET d == _table_diff[1]
            src == DOMAIN snapshot.source
            tgt == DOMAIN snapshot.target
        IN /\ Range(d.inserts) \cap Range(d.updates) = {}
           /\ Range(d.inserts) \cap Range(d.deletes) = {}
           /\ Range(d.updates) \cap Range(d.deletes) = {}
           /\ Range(d.inserts) \cap (src \cap tgt) = {}
           /\ Range(d.deletes) \cap (src \cap tgt) = {}
           /\ Range(d.updates) \subseteq src \cap tgt
           /\ Range(d.inserts) \cup Range(d.deletes) \cup (src \cap tgt) = src \cup tgt

\* A ChangeSet is held with an insert, an update and a delete in it
C2_Witness ==
    /\ Held
    /\ _table_diff[1].inserts # << >>
    /\ _table_diff[1].updates # << >>
    /\ _table_diff[1].deletes # << >>

C4_DiffClearedOnEveryExit ==
    lastOp \in {"ApplyReturn", "Raise"} => NotComputed(_table_diff)

\* C5: constructing a TableUpdater with at least one dataset missing fails with
\* the configuration error (ValueError), and no TableUpdater is produced.
C5_MissingDatasetIsValueError ==
    (pc # "new" /\ (~ Exists(source_table) \/ ~ Exists(target_table)))
        => pc = "ValueError"

\* C6: no step of construction, diff access or apply_changes, failing or not,
\* changes the source dataset.
C6_SourceNeverWritten ==
    [][/\ db'[source_table] = db[source_table]
       /\ exists'[source_table] = exists[source_table]]_vars

\* apply_changes raised in a later phase after an earlier phase of the same call
\* had written to the target
C6_Witness ==
    /\ lastOp = "Raise"
    /\ \E i \in 1 .. Len(log) : log[i][1] \in {"updateRow", "insertRow"}

\* C7: the ChangeSet is computed on the first access and then kept: while it is
\* held no access changes it or scans the datasets again, it goes only when
\* apply_changes returns, and so the datasets are scanned at most once between
\* construction (or the last return) and the next return.
C7_Memoized ==
    /\ [](scans <= 1)
    /\ [][(Held /\ lastOp' # "ApplyReturn")
            => (_table_diff' = _table_diff /\ scans' = scans)]_vars

\* apply_changes has read a ChangeSet of three empty lists in each of its three
\* phases, with one scan in all
C7_Witness ==
    /\ pc = "return"
    /\ _table_diff = Some(NoChanges)
    /\ scans = 1
    /\ log = << >>

\* The OIDs of the calls of this name recorded in the history
Called(name) == { log[i][2] : i \in { j \in 1 .. Len(log) : log[j][1] = name } }

\* C8: what apply_changes is about to return lists, per category, exactly the
\* OIDs of the target rows it updated, inserted or deleted in this call (each
\* once), and a category with nothing to do is an empty list.
C8_ReturnsWhatWasWritten ==
    pc = "return" =>
        /\ Range(changes.updates) = Called("updateRow")
        /\ Range(changes.inserts) = Called("insertRow")
        /\ Range(changes.deletes) = Called("deleteRow")
        /\ NoDuplicates(changes.updates)
        /\ NoDuplicates(changes.inserts)
        /\ NoDuplicates(changes.deletes)
        /\ Range(changes.inserts) \subseteq DOMAIN db[target_table]
        /\ Range(changes.deletes) \cap DOMAIN db[target_table] = {}
        /\ (_table_diff[1].updates = << >> => changes.updates = << >>)
        /\ (_table_diff[1].inserts = << >> => changes.inserts = << >>)
        /\ (_table_diff[1].deletes = << >> => changes.deletes = << >>)

\* apply_changes is about to return two deleted OIDs, one inserted OID and no
\* updated one
C8_Witness ==
    /\ pc = "return"
    /\ Len(changes.deletes) = 2
    /\ Len(changes.inserts) = 1
    /\ changes.updates = << >>

\* C9: in every phase the rows read from the source and the rows written on the
\* target are exactly the rows whose OID is in the id list of the phase, for a
\* list of one id (equality) as for a longer one (membership), and a write
\* leaves every other target row as it was.
C9_ExactlyTheListedRows ==
    /\ [](/\ lastOp = "UpdatesRead" =>
                /\ Range(Oids(rows)) = Range(_table_diff[1].updates)
                /\ \A i \in 1 .. Len(rows) :
                      rows[i].edited = db[source_table][rows[i].oid]
          /\ lastOp = "InsertsRead" =>
                /\ Range(Oids(rows)) = Range(_table_diff[1].inserts)
                /\ \A i \in 1 .. Len(rows) :
                      rows[i].edited = db[source_table][rows[i].oid]
          /\ lastOp = "UpdatesWrite" =>
                Range(changes.updates) = Range(_table_diff[1].updates)
          /\ lastOp = "InsertsWrite" =>
                /\ Range(changes.inserts) = Range(_table_diff[1].inserts)
                /\ Range(changes.inserts) \subseteq DOMAIN db[target_table]
          /\ lastOp = "DeletesWrite" =>
                /\ Range(changes.deletes) = Range(_table_diff[1].deletes)
                /\ Range(changes.deletes) \cap DOMAIN db[target_table] = {})
    /\ [][/\ lastOp' = "UpdatesWrite" =>
                /\ DOMAIN db'[target_table] = DOMAIN db[target_table]
                /\ \A id \in DOMAIN db[target_table] \ Range(_table_diff[1].updates) :
                      db'[target_table][id] = db[target_table][id]
          /\ lastOp' = "InsertsWrite" =>
                /\ DOMAIN db'[target_table] =
                      DOMAIN db[target_table] \cup Range(_table_diff[1].inserts)
                /\ \A id \in DOMAIN db[target_table] :
                      db'[target_table][id] = db[target_table][id]
          /\ lastOp' = "DeletesWrite" =>
                /\ DOMAIN db'[target_table] =
                      DOMAIN db[target_table] \ Range(_table_diff[1].deletes)
                /\ \A id \in DOMAIN db'[target_table] :
                      db'[target_table][id] = db[target_table][id]]_vars

\* One call has updated two rows through a membership filter and inserted one
\* row read through an equality filter
C9_Witness ==
    /\ lastOp = "InsertsWrite"
    /\ Len(changes.updates) = 2
    /\ Len(changes.inserts) = 1

\* The rank of a write call in the order of the phases; 0 for the other calls
Rank(call) ==
    CASE call[1] = "updateRow" -> 1
      [] call[1] = "insertRow" -> 2
      [] call[1] = "deleteRow" -> 3
      [] OTHER -> 0

IsWrite(call) == Rank(call) > 0

NonEmpty(l) == IF l # << >> THEN 1 ELSE 0

Count(name) == Cardinality({ i \in 1 .. Len(log) : log[i][1] = name })

\* C10: within one apply_changes call every update is written before every
\* insert and every insert before every delete; an edit scope is opened only for
\* a phase that has rows to write, so a phase with an empty id list opens none;
\* and after a phase failed no later call is made.
C10_PhaseOrder ==
    /\ \A i, j \in 1 .. Len(log) :
          (i < j /\ IsWrite(log[i]) /\ IsWrite(log[j])) => Rank(log[i]) <= Rank(log[j])
    /\ \A i \in 1 .. Len(log) :
          log[i][1] = "startEditing" =>
              IF i = Len(log) THEN editing ELSE log[i + 1][1] # "stopEditing"
    /\ pc = "return" =>
          Count("startEditing") = NonEmpty(_table_diff[1].updates)
                                  + NonEmpty(_table_diff[1].inserts)
                                  + NonEmpty(_table_diff[1].deletes)
    /\ \A i \in 1 .. Len(log) :
          log[i][1] = "abortOperation" => (i = Len(log) /\ pc = "idle")

\* One call is about to return after updating, inserting and deleting a row
C10_Witness ==
    /\ pc = "return"
    /\ Called("updateRow") # {}
    /\ Called("insertRow") # {}
    /\ Called("deleteRow") # {}

\* The positions inside the with block of a phase
WritePositions == {"updates_write", "inserts_write", "deletes_write"}

\* The steps that compute the diff or read rows of the source
ReadOps == {"ReadTableDiff", "UpdatesRead", "InsertsRead", "DeletesRead"}

\* C11: the edit session on the target is open exactly while apply_changes is
\* inside the with block of one write phase: every session opened has been
\* closed again, by the end of the block or by its exception, before anything
\* else happens, so it is closed between phases, closed in every step that
\* computes the diff or reads source rows, and closed once apply_changes has
\* returned or raised.
C11_EditSessionScopedToPhase ==
    /\ [](/\ editing <=> pc \in WritePositions
          /\ Count("startEditing") =
                Count("stopEditing") + Count("abortOperation")
                    + (IF editing THEN 1 ELSE 0)
          /\ lastOp \in {"ApplyReturn", "Raise"} => ~ editing)
    /\ [][(lastOp' \in ReadOps \/ scans' # scans) => (~ editing /\ ~ editing')]_vars

\* apply_changes raised inside the with block of its second write phase: the
\* session was opened twice, closed once by the end of a block and once by the
\* exception, and is closed now
C11_Witness ==
    /\ lastOp = "Raise"
    /\ ~ editing
    /\ Count("startEditing") = 2
    /\ Count("stopEditing") = 1
    /\ Count("abortOperation") = 1

====
